---- MODULE Spec2Model ----
(***************************************************************************)
(* The liquidation dashboards of cj4c0b1/paradex-lik-dash as one state     *)
(* machine.  `app` selects the program that runs:                          *)
(*   "aster"    src/streamlit_app.py     (forceOrder feed)                 *)
(*   "paradex"  src/paradex_dashboard.py (trades.ALL feed)                 *)
(* Each program is one script run: a websocket thread (the stream client)  *)
(* and the main thread (backfill, retention sweep, snapshot, rendering),   *)
(* sharing the deque `liquidations` and the SQLite table `db`.             *)
(*                                                                         *)
(* Raw feed values are strings, as on the wire; float() is NumVal on the   *)
(* numeric strings and a ValueError on the others.  md5(...)[:8] is        *)
(* modelled as the tuple of the values hashed (no collisions).  The clock  *)
(* is counted in hours.                                                    *)
(***************************************************************************)
EXTENDS Integers, Sequences, FiniteSets, TLC

\* ---------------------------------------------------------------- bounds
\* deque(maxlen=MAX_DATA_POINTS) and LIMIT ?: 1000 in the source, scaled down.
MAX_DATA_POINTS == 2
\* What the environment does during one run: each frame it delivers, each
\* failure it causes (a connection attempt, a send, a lost connection, a
\* SQLite call) and each advance of the clock counts as one event.
MaxEvents == 3
\* timedelta(hours=1): the retention and load window, in clock units.
HOUR == 1
\* strftime('%H:%M:%S') keeps the time of day: the clock modulo one day.
DAY == 24
\* cleanup_counter % 60: the sweep runs every 60th pass of the main loop; scaled down.
CLEANUP_EVERY == 2
\* get_latest_liquidations(100): a tenth of the deque; scaled down.
SNAPSHOT_LIMIT == 1

\* ---------------------------------------------------------------- values
\* dict.get(key) of an absent key.
MISSING == "<missing>"

\* float(s) is defined on these strings; on any other it raises ValueError.
NumVal == [s \in {"0", "1", "2"} |-> CASE s = "0" -> 0 [] s = "1" -> 1 [] s = "2" -> 2]

IsNumeric(s) == s \in DOMAIN NumVal

\* d.get(k, default)
Get(d, k, default) == IF d[k] = MISSING THEN default ELSE d[k]

\* str.upper() on the side strings of the feeds.
Upper(s) == CASE s = "buy" -> "BUY" [] s = "sell" -> "SELL" [] s = "long" -> "LONG"
              [] s = "short" -> "SHORT" [] OTHER -> s

\* datetime.isoformat() of a timestamp, and pd.Timestamp(text) back.
IsoFormat(t) == [iso |-> t]

PdTimestamp(x) == x.iso

\* f"{timestamp}:{s}:{S}:{q}" hashed; an absent key formats as "None".
Md5Id(t, s, S, q) == <<t, IF s = MISSING THEN "None" ELSE s,
                          IF S = MISSING THEN "None" ELSE S,
                          IF q = MISSING THEN "None" ELSE q>>

\* ---------------------------------------------------------------- sequences
RECURSIVE SeqToSet(_)
SeqToSet(s) == IF s = <<>> THEN {} ELSE {Head(s)} \cup SeqToSet(Tail(s))

RECURSIVE Reverse(_)
Reverse(s) == IF s = <<>> THEN <<>> ELSE Append(Reverse(Tail(s)), Head(s))

FirstN(s, n) == SubSeq(s, 1, IF n < Len(s) THEN n ELSE Len(s))

LastN(s, n) == SubSeq(s, (IF n < Len(s) THEN Len(s) - n ELSE 0) + 1, Len(s))

\* ---------------------------------------------------------------- deque
\* A faulty deque: when full it keeps what it holds and drops the new item.
DequeAppendKeepOldest(buf, x) == FirstN(Append(buf, x), MAX_DATA_POINTS)

\* deque.append with maxlen: a full deque drops its leftmost item.
DequeAppend(buf, x) == LastN(Append(buf, x), MAX_DATA_POINTS)

\* deque.appendleft with maxlen: a full deque drops its rightmost item.
DequeAppendLeft(buf, x) == FirstN(<<x>> \o buf, MAX_DATA_POINTS)

\* deque.extend(xs): append each item in turn.
RECURSIVE DequeExtend(_, _)
DequeExtend(buf, xs) ==
    IF xs = <<>> THEN buf ELSE DequeExtend(DequeAppend(buf, Head(xs)), Tail(xs))

\* ---------------------------------------------------------------- feeds
\* A frame of the Aster feed: text that is JSON or not, and for JSON the
\* envelope {e, o: {s, S, q, ap}}.
AsterFrame(e, s, S, q, ap) ==
    [json |-> TRUE, e |-> e, s |-> s, S |-> S, q |-> q, ap |-> ap]

NotJson == [json |-> FALSE]

AsterFrames ==
    { AsterFrame("forceOrder", "BTCUSDT", "BUY", "1", "1"),
      AsterFrame("forceOrder", "BTCUSDT", "BUY", "1", "2"),
      AsterFrame("forceOrder", "BTCUSDT", "BUY", "2", "1"),
      AsterFrame("forceOrder", "BTCUSDT", "SELL", "1", MISSING),
      AsterFrame("forceOrder", "BTCUSDT", "SELL", "1", "abc"),
      AsterFrame("aggTrade", "BTCUSDT", "BUY", "1", "1"),
      NotJson }

\* A frame of the Paradex feed: for JSON the envelope
\* {method, params: {channel, data: {id, timestamp, market, side, price, size, trade_type}}}.
ParadexFrame(method, id, ts, side, price, size, tt) ==
    [json |-> TRUE, method |-> method, channel |-> "trades.ALL", id |-> id,
     timestamp |-> ts, market |-> "BTC-USD-PERP", side |-> side, price |-> price,
     size |-> size, trade_type |-> tt]

ParadexFrames ==
    { ParadexFrame("subscription", "a", "1", "buy", "1", "1", "liquidation"),
      ParadexFrame("subscription", "b", "2", "sell", "2", "1", "liquidation"),
      ParadexFrame("subscription", "c", "1", "buy", "1", "1", "liquidation"),
      ParadexFrame("subscription", "d", "2", "sell", MISSING, "1", "liquidation"),
      ParadexFrame("subscription", "e", "2", "buy", "abc", "1", "liquidation"),
      ParadexFrame("subscription", "f", "2", "buy", "1", "1", "fill"),
      ParadexFrame(MISSING, MISSING, MISSING, MISSING, MISSING, MISSING, MISSING),
      NotJson }

\* strftime of the clock.
Strftime(t) == t % DAY

\* ---------------------------------------------------------------- store
\* The table's two uniqueness constraints: PRIMARY KEY(id) and
\* UNIQUE(timestamp, symbol, side, value).
UniqueTuple(row) == <<row.timestamp, row.symbol, row.side, row.value>>

SqlConflict(table, row) ==
    \E i \in 1..Len(table) :
        table[i].id = row.id \/ UniqueTuple(table[i]) = UniqueTuple(row)

\* A faulty store: a plain INSERT into a table without constraints.
SqlInsertAlways(table, row) == Append(table, row)

\* INSERT OR IGNORE: a row that breaks a uniqueness constraint is skipped.
SqlInsertOrIgnore(table, row) ==
    IF SqlConflict(table, row) THEN table ELSE Append(table, row)

\* The row save_liquidation_to_db binds (streamlit_app.py).
AsterRow(liq) ==
    [id |-> liq.id, timestamp |-> IsoFormat(liq.timestamp), symbol |-> liq.symbol,
     side |-> liq.side, price |-> liq.price, quantity |-> liq.quantity,
     value |-> liq.value, time |-> liq.time]

\* The row save_liquidation_to_db binds (paradex_dashboard.py): no trade_type column.
ParadexRow(liq) ==
    [id |-> liq.id, timestamp |-> liq.timestamp, symbol |-> liq.symbol,
     side |-> liq.side, price |-> liq.price, quantity |-> liq.quantity,
     value |-> liq.value, time |-> liq.time]

\* ---------------------------------------------------------------- normalizers
\* The in-memory dedup key of streamlit_app.py.
Key(liq) == <<liq.timestamp, liq.symbol, liq.side, liq.value>>

\* existing_keys of process_liquidation (streamlit_app.py).
KeysOf(buf) == {Key(buf[i]) : i \in 1..Len(buf)}

\* process_liquidation of streamlit_app.py up to the record it builds:
\* "filtered" (not a forceOrder), "error" (float() raised) or the record.
AsterNormalize(data, t) ==
    IF data.e # "forceOrder" THEN [kind |-> "filtered"]
    ELSE LET ap == Get(data, "ap", "0")
             q  == Get(data, "q", "0")
         IN  IF ~IsNumeric(ap) \/ ~IsNumeric(q) THEN [kind |-> "error"]
             ELSE [kind |-> "record",
                   rec |-> [id |-> Md5Id(t, data.s, data.S, data.q),
                            timestamp |-> t,
                            symbol |-> Get(data, "s", ""),
                            side |-> Get(data, "S", ""),
                            price |-> NumVal[ap],
                            quantity |-> NumVal[q],
                            value |-> NumVal[ap] * NumVal[q],
                            time |-> Strftime(t)]]

\* A faulty normalizer: it takes every trade of the channel for a liquidation.
ParadexNormalizeNoFilter(data, t) ==
    LET price == Get(data, "price", "0")
        size  == Get(data, "size", "0")
    IN  IF ~IsNumeric(price) \/ ~IsNumeric(size) THEN [kind |-> "error"]
        ELSE [kind |-> "record",
              rec |-> [id |-> Get(data, "id", ""),
                       timestamp |-> Get(data, "timestamp", ""),
                       symbol |-> Get(data, "market", ""),
                       side |-> Upper(Get(data, "side", "")),
                       price |-> NumVal[price],
                       quantity |-> NumVal[size],
                       value |-> NumVal[price] * NumVal[size],
                       trade_type |-> data.trade_type,
                       time |-> Strftime(t)]]

\* process_liquidation of paradex_dashboard.py up to the record it builds.
ParadexNormalize(data, t) ==
    IF Get(data, "trade_type", "") # "liquidation" THEN [kind |-> "filtered"]
    ELSE LET price == Get(data, "price", "0")
             size  == Get(data, "size", "0")
         IN  IF ~IsNumeric(price) \/ ~IsNumeric(size) THEN [kind |-> "error"]
             ELSE [kind |-> "record",
                   rec |-> [id |-> Get(data, "id", ""),
                            timestamp |-> Get(data, "timestamp", ""),
                            symbol |-> Get(data, "market", ""),
                            side |-> Upper(Get(data, "side", "")),
                            price |-> NumVal[price],
                            quantity |-> NumVal[size],
                            value |-> NumVal[price] * NumVal[size],
                            trade_type |-> data.trade_type,
                            time |-> Strftime(t)]]

\* A faulty process_liquidation: it saves first, so the exception of a failed
\* save skips the append.
AsterProcessSaveFirst(data, t, buf, table, storeOk) ==
    LET n == AsterNormalize(data, t)
    IN  IF n.kind # "record"
        THEN [buf |-> buf, db |-> table, appended |-> FALSE, outcome |-> n.kind]
        ELSE IF Key(n.rec) \in KeysOf(buf)
        THEN [buf |-> buf, db |-> table, appended |-> FALSE, outcome |-> "duplicate"]
        ELSE IF storeOk
        THEN [buf |-> DequeAppend(buf, n.rec),
              db |-> SqlInsertOrIgnore(table, AsterRow(n.rec)),
              appended |-> TRUE, outcome |-> "saved"]
        ELSE [buf |-> buf, db |-> table, appended |-> FALSE, outcome |-> "store_error"]

\* process_liquidation of streamlit_app.py on a decoded message, at clock t,
\* with the store answering (storeOk) or raising: the deque and the table
\* afterwards.  Every exception is caught inside (except Exception: print).
AsterProcess(data, t, buf, table, storeOk) ==
    LET n == AsterNormalize(data, t)
    IN  IF n.kind # "record"
        THEN [buf |-> buf, db |-> table, appended |-> FALSE, outcome |-> n.kind]
        ELSE IF Key(n.rec) \in KeysOf(buf)
        THEN [buf |-> buf, db |-> table, appended |-> FALSE, outcome |-> "duplicate"]
        ELSE [buf |-> DequeAppend(buf, n.rec),
              db |-> IF storeOk THEN SqlInsertOrIgnore(table, AsterRow(n.rec)) ELSE table,
              appended |-> TRUE,
              outcome |-> IF storeOk THEN "saved" ELSE "store_error"]

\* process_liquidation of paradex_dashboard.py: appendleft, then
\* save_liquidation_to_db, which catches its own exceptions.
ParadexProcess(data, t, buf, table, storeOk) ==
    LET n == ParadexNormalize(data, t)
    IN  IF n.kind # "record"
        THEN [buf |-> buf, db |-> table, appended |-> FALSE, outcome |-> n.kind]
        ELSE [buf |-> DequeAppendLeft(buf, n.rec),
              db |-> IF storeOk THEN SqlInsertOrIgnore(table, ParadexRow(n.rec)) ELSE table,
              appended |-> TRUE,
              outcome |-> IF storeOk THEN "saved" ELSE "store_error"]

\* The receive loop of paradex_websocket between recv() and process_liquidation:
\* json.loads, the envelope test, and float(price), float(qty) for the log line.
\* "raise" leaves the loop for the outer except; "skip" reads the next frame.
ParadexEnvelope(frame) ==
    IF ~frame.json THEN "raise"
    ELSE IF Get(frame, "method", "") # "subscription" \/ frame.channel # "trades.ALL"
    THEN "skip"
    ELSE IF ~IsNumeric(Get(frame, "price", "0")) \/ ~IsNumeric(Get(frame, "size", "0"))
    THEN "raise"
    ELSE "process"

\* ---------------------------------------------------------------- loading
\* Lexical order of the TEXT timestamps of paradex_dashboard.py.
TextOrd(s) == IF s = "" THEN 0 ELSE NumVal[s] + 1

\* ORDER BY timestamp DESC: every order of the rows that is descending in ord
\* (a function of the row);
\* SQLite leaves the order of equal timestamps open.
RECURSIVE DescOrders(_, _)
DescOrders(rows, ord) ==
    IF rows = {} THEN {<<>>}
    ELSE LET top == {r \in rows : \A o \in rows : ord[o] <= ord[r]}
         IN  UNION {{<<r>> \o rest : rest \in DescOrders(rows \ {r}, ord)} : r \in top}

IsoOrd(rows) == [r \in rows |-> r.timestamp.iso]

RowTextOrd(rows) == [r \in rows |-> TextOrd(r.timestamp)]

\* deduplicate_liquidations: the first record of each key, in order.
RECURSIVE Deduplicate(_, _)
Deduplicate(list, seen) ==
    IF list = <<>> THEN <<>>
    ELSE IF Key(Head(list)) \in seen THEN Deduplicate(Tail(list), seen)
    ELSE <<Head(list)>> \o Deduplicate(Tail(list), seen \cup {Key(Head(list))})

\* A row of the aster table as the dict load_liquidations_from_db builds.
AsterFromRow(row) == [row EXCEPT !.timestamp = PdTimestamp(row.timestamp)]

\* The rows the SELECT of streamlit_app.py may return at clock t:
\* WHERE timestamp >= one_hour_ago ORDER BY timestamp DESC LIMIT MAX_DATA_POINTS.
AsterSelect(table, t) ==
    LET hit == {table[i] : i \in {j \in 1..Len(table) :
                       table[j].timestamp.iso >= IsoFormat(t - HOUR).iso}}
    IN  {FirstN(rows, MAX_DATA_POINTS) : rows \in DescOrders(hit, IsoOrd(hit))}

\* What load_liquidations_from_db of streamlit_app.py extends the deque with.
AsterLoaded(rows) ==
    Deduplicate([i \in 1..Len(rows) |-> AsterFromRow(Reverse(rows)[i])], {})

\* The rows the SELECT of paradex_dashboard.py may return:
\* ORDER BY timestamp DESC LIMIT MAX_DATA_POINTS, no WHERE.
ParadexSelect(table) ==
    LET all == {table[i] : i \in 1..Len(table)}
    IN  {FirstN(rows, MAX_DATA_POINTS) : rows \in DescOrders(all, RowTextOrd(all))}

\* df.to_dict('records'): the rows as dicts, in the order selected.
ParadexLoaded(rows) == rows

\* init_db of streamlit_app.py after CREATE TABLE IF NOT EXISTS:
\* DELETE ... WHERE rowid NOT IN (SELECT MIN(rowid) ... GROUP BY timestamp, symbol, side, value).
RECURSIVE RemoveDuplicateRows(_, _)
RemoveDuplicateRows(table, seen) ==
    IF table = <<>> THEN <<>>
    ELSE IF UniqueTuple(Head(table)) \in seen THEN RemoveDuplicateRows(Tail(table), seen)
    ELSE <<Head(table)>> \o
         RemoveDuplicateRows(Tail(table), seen \cup {UniqueTuple(Head(table))})

\* A faulty sweep: it also deletes the row that is exactly one hour old.
RECURSIVE DeleteOlderOrEqual(_, _)
DeleteOlderOrEqual(table, t) ==
    IF table = <<>> THEN <<>>
    ELSE IF Head(table).timestamp.iso <= IsoFormat(t - HOUR).iso
    THEN DeleteOlderOrEqual(Tail(table), t)
    ELSE <<Head(table)>> \o DeleteOlderOrEqual(Tail(table), t)

\* DELETE FROM liquidations WHERE timestamp < one_hour_ago (cleanup_old_liquidations).
RECURSIVE DeleteOlderThan(_, _)
DeleteOlderThan(table, t) ==
    IF table = <<>> THEN <<>>
    ELSE IF Head(table).timestamp.iso < IsoFormat(t - HOUR).iso
    THEN DeleteOlderThan(Tail(table), t)
    ELSE <<Head(table)>> \o DeleteOlderThan(Tail(table), t)

\* The tables a run may start with: empty, or the rows an earlier run saved.
InitialTables(a) ==
    IF a = "aster"
    THEN { <<>>,
           << AsterRow(AsterNormalize(AsterFrame("forceOrder", "BTCUSDT", "BUY", "1", "1"),
                                      0 - 2).rec),
              AsterRow(AsterNormalize(AsterFrame("forceOrder", "BTCUSDT", "BUY", "1", "2"),
                                      0 - 1).rec) >> }
    ELSE { <<>>,
           << ParadexRow(ParadexNormalize(
                  ParadexFrame("subscription", "a", "1", "buy", "1", "1", "liquidation"), 0).rec),
              ParadexRow(ParadexNormalize(
                  ParadexFrame("subscription", "b", "2", "sell", "2", "1", "liquidation"), 0).rec) >> }

\* ---------------------------------------------------------------- statistics
\* df['value'].sum()
RECURSIVE SumValues(_)
SumValues(d) == IF d = <<>> THEN 0 ELSE Head(d).value + SumValues(Tail(d))

\* A float quotient num / den, kept exact.
Ratio(num, den) == [num |-> num, den |-> den]

\* df['value'].mean()
Mean(d) == Ratio(SumValues(d), Len(d))

\* df[col].value_counts() as a mapping from each value to its number of rows.
ValueCounts(d, col) ==
    [v \in {d[i][col] : i \in 1..Len(d)} |->
        Cardinality({i \in 1..Len(d) : d[i][col] = v})]

\* value_counts() lists the values by descending count; pandas leaves the
\* order of equal counts open.
CountOrders(counts) == DescOrders(DOMAIN counts, counts)

\* df[col].value_counts().idxmax(): what may come first.
IdxMax(d, col) == {order[1] : order \in CountOrders(ValueCounts(d, col))}

\* df[df['timestamp'] >= last_hour]
RecentRows(d, t) == SelectSeq(d, LAMBDA liq : liq.timestamp >= t - HOUR)

\* calculate_stats(df) of streamlit_app.py at clock t: the results it may return.
AsterStats(d, t) ==
    IF d = <<>>
    THEN {[total_liquidations |-> 0, last_hour_liquidations |-> 0, total_volume |-> 0,
           hourly_volume |-> 0, top_symbol |-> "N/A", top_side |-> "N/A",
           avg_trade_size |-> Ratio(0, 1), last_updated |-> t]}
    ELSE {[total_liquidations |-> Len(d),
           last_hour_liquidations |-> Len(RecentRows(d, t)),
           total_volume |-> SumValues(d),
           hourly_volume |-> SumValues(RecentRows(d, t)),
           top_symbol |-> sym, top_side |-> side,
           avg_trade_size |-> Mean(d), last_updated |-> t] :
             sym \in IdxMax(d, "symbol"), side \in IdxMax(d, "side")}

\* side_counts.get(side, 0)
CountOf(counts, v) == IF v \in DOMAIN counts THEN counts[v] ELSE 0

\* head(5) of the symbol counts.
TOP_PAIRS == 5

\* A faulty calculate_stats: without the df.empty test the mean of no rows is 0 / 0.
ParadexStatsNoGuard(d) ==
    {[total_liquidations |-> Len(d),
      total_volume |-> SumValues(d),
      avg_size |-> Mean(d),
      longs |-> CountOf(ValueCounts(d, "side"), "LONG"),
      shorts |-> CountOf(ValueCounts(d, "side"), "SHORT"),
      top_pairs |-> [i \in 1..Len(FirstN(order, TOP_PAIRS)) |->
                        <<order[i], ValueCounts(d, "symbol")[order[i]]>>]] :
        order \in CountOrders(ValueCounts(d, "symbol"))}

\* calculate_stats(df) of paradex_dashboard.py: the results it may return;
\* top_pairs as <<symbol, count>> for the text "symbol (count)".
ParadexStats(d) ==
    IF d = <<>>
    THEN {[total_liquidations |-> 0, total_volume |-> 0, avg_size |-> Ratio(0, 1),
           longs |-> 0, shorts |-> 0, top_pairs |-> <<>>]}
    ELSE {[total_liquidations |-> Len(d),
           total_volume |-> SumValues(d),
           avg_size |-> Mean(d),
           longs |-> CountOf(ValueCounts(d, "side"), "LONG"),
           shorts |-> CountOf(ValueCounts(d, "side"), "SHORT"),
           top_pairs |-> [i \in 1..Len(FirstN(order, TOP_PAIRS)) |->
                             <<order[i], ValueCounts(d, "symbol")[order[i]]>>]] :
             order \in CountOrders(ValueCounts(d, "symbol"))}

\* ---------------------------------------------------------------- state
VARIABLES
    app,               \* which program runs
    running,           \* self.running of ParadexWebSocketMonitor
    websocket,         \* self.websocket: "none", or a connection "open" or "closed"
    active_subscriptions,  \* self.active_subscriptions
    shutdown,          \* the process was asked to stop (Ctrl+C, server stop)
    now,               \* the clock
    liquidations,      \* the global deque, leftmost item first
    db,                \* the liquidations table, in rowid order
    wsPc,              \* where the websocket thread is
    connected,         \* _connection_status["connected"] (paradex_dashboard.py)
    mainPc,            \* where the main thread is
    cleanup_counter,   \* main()'s cleanup_counter, modulo CLEANUP_EVERY
    df,                \* the DataFrame get_latest_liquidations returned
    iterPos,           \* items pd.DataFrame(liquidations) has read so far
    stats,             \* <<what calculate_stats(df) returned>> in this pass, or <<>>
    dequeMutated,      \* the deque changed since the iterator was made
    nEvents,           \* events of the environment so far
    \* history variables of the two dashboards: they record what happened and
    \* steer nothing
    insertedAt,        \* for each item of the deque, the number of its insertion
    nIns,              \* insertions into the deque so far
    streamRun,         \* process_liquidation insertions since the last loaded one
    subsSent,          \* subscribe requests sent on the current connection
    readOnConn,        \* a frame was read on the current connection
    filteredOnConn,    \* process_liquidation filtered a message out on the current connection
    deliveredOnConn,   \* a record was appended on the current connection
    lostAfterDelivery, \* a connection that had delivered a record was lost
    needBackoff        \* a connection was lost or failed and no sleep followed yet

vars == <<app, running, websocket, active_subscriptions, shutdown, now, liquidations, db, wsPc, connected, mainPc, cleanup_counter, df,
          iterPos, stats, dequeMutated, nEvents, insertedAt, nIns, streamRun, subsSent,
          readOnConn, filteredOnConn, deliveredOnConn, lostAfterDelivery, needBackoff>>

wsVars == <<wsPc, subsSent, readOnConn, filteredOnConn, deliveredOnConn, lostAfterDelivery,
           needBackoff>>

mainVars == <<mainPc, cleanup_counter, df, iterPos, stats>>

bufVars == <<liquidations, insertedAt, nIns, streamRun>>

\* streamlit_app.py starts the websocket thread at import, before main();
\* paradex_dashboard.py starts it from main(), after the load.
Init ==
    /\ app \in {"aster", "paradex", "monitor"}
    /\ running = FALSE
    /\ websocket = "none"
    /\ active_subscriptions = {}
    /\ shutdown = FALSE
    /\ now = 0
    /\ liquidations = <<>>
    /\ db \in IF app = "monitor" THEN {<<>>} ELSE InitialTables(app)
    /\ wsPc = IF app = "aster" THEN "connect" ELSE "idle"
    /\ connected = FALSE
    /\ mainPc = IF app = "monitor" THEN "connect" ELSE "init_db"
    /\ cleanup_counter = 0
    /\ df = <<>>
    /\ iterPos = 0
    /\ stats = <<>>
    /\ dequeMutated = FALSE
    /\ nEvents = 0
    /\ insertedAt = <<>>
    /\ nIns = 0
    /\ streamRun = 0
    /\ subsSent = 0
    /\ readOnConn = FALSE
    /\ filteredOnConn = FALSE
    /\ deliveredOnConn = FALSE
    /\ lostAfterDelivery = FALSE
    /\ needBackoff = FALSE

\* The environment spends `cost` events.
Event(cost) ==
    /\ nEvents + cost <= MaxEvents
    /\ nEvents' = nEvents + cost

\* The clock advances.
Tick ==
    /\ Event(1)
    /\ now' = now + 1
    /\ UNCHANGED <<app, running, websocket, active_subscriptions, shutdown, db, connected, dequeMutated>>
    /\ UNCHANGED bufVars
    /\ UNCHANGED wsVars
    /\ UNCHANGED mainVars

\* ---------------------------------------------------------------- websocket threads
\* websockets.connect(...) of either program: the connection opens, or the
\* attempt raises into the outer except (paradex: set_connection_status(False)).
Connect(ok) ==
    /\ wsPc = "connect"
    /\ Event(IF ok THEN 0 ELSE 1)
    /\ wsPc' = IF ok THEN "subscribe" ELSE "sleep"
    /\ connected' = IF ok THEN connected ELSE FALSE
    /\ needBackoff' = ~ok
    /\ subsSent' = 0
    /\ readOnConn' = FALSE
    /\ filteredOnConn' = FALSE
    /\ deliveredOnConn' = FALSE
    /\ UNCHANGED <<app, running, websocket, active_subscriptions, shutdown, now, db, dequeMutated, lostAfterDelivery>>
    /\ UNCHANGED bufVars
    /\ UNCHANGED mainVars

\* A faulty client: it goes on to read without sending the subscribe request.
SubscribeSkipped(ok) ==
    /\ wsPc = "subscribe"
    /\ Event(IF ok THEN 0 ELSE 1)
    /\ wsPc' = IF ok THEN "recv" ELSE "sleep"
    /\ connected' = IF ok THEN connected ELSE FALSE
    /\ needBackoff' = ~ok
    /\ UNCHANGED <<app, running, websocket, active_subscriptions, shutdown, now, db, dequeMutated, subsSent, readOnConn, filteredOnConn, deliveredOnConn,
                   lostAfterDelivery>>
    /\ UNCHANGED bufVars
    /\ UNCHANGED mainVars

\* websocket.send(json.dumps(subscribe_msg)): sent, or the send raises into the
\* outer except.
Subscribe(ok) ==
    /\ wsPc = "subscribe"
    /\ Event(IF ok THEN 0 ELSE 1)
    /\ wsPc' = IF ok THEN "recv" ELSE "sleep"
    /\ subsSent' = IF ok THEN subsSent + 1 ELSE subsSent
    /\ connected' = IF ok THEN connected ELSE FALSE
    /\ needBackoff' = ~ok
    /\ UNCHANGED <<app, running, websocket, active_subscriptions, shutdown, now, db, dequeMutated, readOnConn, filteredOnConn, deliveredOnConn,
                   lostAfterDelivery>>
    /\ UNCHANGED bufVars
    /\ UNCHANGED mainVars

WsConnect == \E ok \in BOOLEAN : Connect(ok)

WsSubscribe == \E ok \in BOOLEAN : Subscribe(ok)

\* What a frame does to the deque and the table in aster_websocket's inner loop:
\* json.loads raising is caught there (except Exception: continue).
AsterHandle(frame, storeOk) ==
    IF frame.json
    THEN AsterProcess(frame, now, liquidations, db, storeOk)
    ELSE [buf |-> liquidations, db |-> db, appended |-> FALSE, outcome |-> "decode_error"]

\* What a frame does in paradex_websocket's inner loop, where nothing is caught.
ParadexHandle(frame, storeOk) ==
    IF ParadexEnvelope(frame) = "process"
    THEN ParadexProcess(frame, now, liquidations, db, storeOk)
    ELSE [buf |-> liquidations, db |-> db, appended |-> FALSE,
          outcome |-> ParadexEnvelope(frame)]

\* One pass of aster_websocket's inner loop with a frame: recv, json.loads,
\* process_liquidation; the loop then reads on.
AsterRecvFrame(frame, storeOk) ==
    /\ app = "aster" /\ wsPc = "recv"
    /\ LET r == AsterHandle(frame, storeOk)
       IN  /\ Event(IF r.outcome = "store_error" THEN 2 ELSE 1)
           /\ liquidations' = r.buf
           /\ db' = r.db
           /\ insertedAt' = IF r.appended THEN DequeAppend(insertedAt, nIns + 1)
                             ELSE insertedAt
           /\ nIns' = IF r.appended THEN nIns + 1 ELSE nIns
           /\ streamRun' = IF r.appended THEN streamRun + 1 ELSE streamRun
           /\ deliveredOnConn' = (deliveredOnConn \/ r.appended)
           /\ filteredOnConn' = (filteredOnConn \/ r.outcome = "filtered")
           /\ dequeMutated' = (dequeMutated \/ (r.appended /\ mainPc = "iterate"))
    /\ readOnConn' = TRUE
    /\ wsPc' = "recv"
    /\ UNCHANGED <<app, running, websocket, active_subscriptions, shutdown, now, connected, subsSent, lostAfterDelivery, needBackoff>>
    /\ UNCHANGED mainVars

AsterRecv == \E frame \in AsterFrames, storeOk \in BOOLEAN : AsterRecvFrame(frame, storeOk)

\* recv() raises ConnectionClosed in aster_websocket: break, leave the
\* async with, and the while loop connects again.
AsterClosed ==
    /\ app = "aster" /\ wsPc = "recv"
    /\ Event(1)
    /\ wsPc' = "connect"
    /\ needBackoff' = TRUE
    /\ lostAfterDelivery' = (lostAfterDelivery \/ deliveredOnConn)
    /\ UNCHANGED <<app, running, websocket, active_subscriptions, shutdown, now, db, connected, dequeMutated, subsSent, readOnConn, filteredOnConn,
                   deliveredOnConn>>
    /\ UNCHANGED bufVars
    /\ UNCHANGED mainVars

\* The outer except of aster_websocket: asyncio.sleep(5), then connect again.
AsterSleep ==
    /\ app = "aster" /\ wsPc = "sleep"
    /\ wsPc' = "connect"
    /\ needBackoff' = FALSE
    /\ UNCHANGED <<app, running, websocket, active_subscriptions, shutdown, now, db, connected, dequeMutated, nEvents, subsSent, readOnConn, filteredOnConn,
                   deliveredOnConn, lostAfterDelivery>>
    /\ UNCHANGED bufVars
    /\ UNCHANGED mainVars

\* The top of paradex_websocket's while loop: set_connection_status(True),
\* before connecting.
ParadexTop ==
    /\ app = "paradex" /\ wsPc = "top"
    /\ connected' = TRUE
    /\ wsPc' = "connect"
    /\ UNCHANGED <<app, running, websocket, active_subscriptions, shutdown, now, db, dequeMutated, nEvents, subsSent, readOnConn, filteredOnConn,
                   deliveredOnConn, lostAfterDelivery, needBackoff>>
    /\ UNCHANGED bufVars
    /\ UNCHANGED mainVars

\* One pass of paradex_websocket's inner loop with a frame.  json.loads or
\* float() raising leaves the connection through except Exception:
\* set_connection_status(False), then the sleep.
ParadexRecvFrame(frame, storeOk) ==
    /\ app = "paradex" /\ wsPc = "recv"
    /\ LET r == ParadexHandle(frame, storeOk)
           raised == r.outcome = "raise"
       IN  /\ Event(IF r.outcome = "store_error" THEN 2 ELSE 1)
           /\ liquidations' = r.buf
           /\ db' = r.db
           /\ insertedAt' = IF r.appended THEN DequeAppendLeft(insertedAt, nIns + 1)
                             ELSE insertedAt
           /\ nIns' = IF r.appended THEN nIns + 1 ELSE nIns
           /\ streamRun' = IF r.appended THEN streamRun + 1 ELSE streamRun
           /\ deliveredOnConn' = (deliveredOnConn \/ r.appended)
           /\ filteredOnConn' = (filteredOnConn \/ r.outcome = "filtered")
           /\ dequeMutated' = (dequeMutated \/ (r.appended /\ mainPc = "iterate"))
           /\ wsPc' = IF raised THEN "sleep" ELSE "recv"
           /\ connected' = IF raised THEN FALSE ELSE connected
           /\ needBackoff' = raised
           /\ lostAfterDelivery' = (lostAfterDelivery \/ (raised /\ deliveredOnConn))
    /\ readOnConn' = TRUE
    /\ UNCHANGED <<app, running, websocket, active_subscriptions, shutdown, now, subsSent>>
    /\ UNCHANGED mainVars

ParadexRecv ==
    \E frame \in ParadexFrames, storeOk \in BOOLEAN : ParadexRecvFrame(frame, storeOk)

\* recv() raises ConnectionClosed in paradex_websocket: the first except clause.
ParadexClosed ==
    /\ app = "paradex" /\ wsPc = "recv"
    /\ Event(1)
    /\ wsPc' = "sleep"
    /\ connected' = FALSE
    /\ needBackoff' = TRUE
    /\ lostAfterDelivery' = (lostAfterDelivery \/ deliveredOnConn)
    /\ UNCHANGED <<app, running, websocket, active_subscriptions, shutdown, now, db, dequeMutated, subsSent, readOnConn, filteredOnConn, deliveredOnConn>>
    /\ UNCHANGED bufVars
    /\ UNCHANGED mainVars

\* asyncio.sleep(5) in the except clause, then the top of the while loop.
ParadexSleep ==
    /\ app = "paradex" /\ wsPc = "sleep"
    /\ wsPc' = "top"
    /\ needBackoff' = FALSE
    /\ UNCHANGED <<app, running, websocket, active_subscriptions, shutdown, now, db, connected, dequeMutated, nEvents, subsSent, readOnConn, filteredOnConn,
                   deliveredOnConn, lostAfterDelivery>>
    /\ UNCHANGED bufVars
    /\ UNCHANGED mainVars

\* ---------------------------------------------------------------- main threads
\* The deque after extend(data), with the insertion numbers of the new items.
Extended(data) ==
    [buf |-> DequeExtend(liquidations, data),
     at  |-> DequeExtend(insertedAt, [i \in 1..Len(data) |-> nIns + i])]

\* init_db() of streamlit_app.py; sqlite3 raising ends main().
AsterInitDb ==
    /\ app = "aster" /\ mainPc = "init_db"
    /\ \E ok \in BOOLEAN :
          /\ Event(IF ok THEN 0 ELSE 1)
          /\ db' = IF ok THEN RemoveDuplicateRows(db, {}) ELSE db
          /\ mainPc' = IF ok THEN "load" ELSE "crashed"
    /\ UNCHANGED <<app, running, websocket, active_subscriptions, shutdown, now, connected, dequeMutated, cleanup_counter, df, iterPos, stats>>
    /\ UNCHANGED bufVars
    /\ UNCHANGED wsVars

\* load_liquidations_from_db() of streamlit_app.py; sqlite3 raising ends main().
AsterLoad ==
    /\ app = "aster" /\ mainPc = "load"
    /\ \/ /\ \E rows \in AsterSelect(db, now) :
                LET data == AsterLoaded(rows)
                IN  /\ liquidations' = Extended(data).buf
                    /\ insertedAt' = Extended(data).at
                    /\ nIns' = nIns + Len(data)
                    /\ streamRun' = IF data = <<>> THEN streamRun ELSE 0
          /\ mainPc' = "loop"
          /\ UNCHANGED nEvents
       \/ /\ Event(1)
          /\ mainPc' = "crashed"
          /\ UNCHANGED bufVars
    /\ UNCHANGED <<app, running, websocket, active_subscriptions, shutdown, now, db, connected, dequeMutated, cleanup_counter, df, iterPos, stats>>
    /\ UNCHANGED wsVars

\* The top of main()'s while loop in streamlit_app.py: cleanup_old_liquidations()
\* on every CLEANUP_EVERY-th pass (sqlite3 raising ends main()), then
\* cleanup_counter += 1.  The stats of the pass before are dead here.
AsterLoop ==
    /\ app = "aster" /\ mainPc = "loop"
    /\ IF cleanup_counter % CLEANUP_EVERY = 0
       THEN \E ok \in BOOLEAN :
               /\ Event(IF ok THEN 0 ELSE 1)
               /\ db' = IF ok THEN DeleteOlderThan(db, now) ELSE db
               /\ mainPc' = IF ok THEN "snapshot" ELSE "crashed"
       ELSE db' = db /\ mainPc' = "snapshot" /\ nEvents' = nEvents
    /\ cleanup_counter' = (cleanup_counter + 1) % CLEANUP_EVERY
    /\ stats' = <<>>
    /\ UNCHANGED <<app, running, websocket, active_subscriptions, shutdown, now, connected, dequeMutated, df, iterPos>>
    /\ UNCHANGED bufVars
    /\ UNCHANGED wsVars

\* init_db() of paradex_dashboard.py; sqlite3 raising ends main().
ParadexInitDb ==
    /\ app = "paradex" /\ mainPc = "init_db"
    /\ \E ok \in BOOLEAN :
          /\ Event(IF ok THEN 0 ELSE 1)
          /\ mainPc' = IF ok THEN "load" ELSE "crashed"
    /\ UNCHANGED <<app, running, websocket, active_subscriptions, shutdown, now, db, connected, dequeMutated, cleanup_counter, df, iterPos, stats>>
    /\ UNCHANGED bufVars
    /\ UNCHANGED wsVars

\* load_liquidations_from_db() of paradex_dashboard.py: the rows extend the
\* deque as selected; an exception is caught and nothing is loaded.
ParadexLoad ==
    /\ app = "paradex" /\ mainPc = "load"
    /\ \/ /\ \E rows \in ParadexSelect(db) :
                LET data == ParadexLoaded(rows)
                IN  /\ liquidations' = Extended(data).buf
                    /\ insertedAt' = Extended(data).at
                    /\ nIns' = nIns + Len(data)
                    /\ streamRun' = IF data = <<>> THEN streamRun ELSE 0
          /\ UNCHANGED nEvents
       \/ /\ Event(1)
          /\ UNCHANGED bufVars
    /\ mainPc' = "start_ws"
    /\ UNCHANGED <<app, running, websocket, active_subscriptions, shutdown, now, db, connected, dequeMutated, cleanup_counter, df, iterPos, stats>>
    /\ UNCHANGED wsVars

\* main() of paradex_dashboard.py starts the websocket thread.
ParadexStartWs ==
    /\ app = "paradex" /\ mainPc = "start_ws"
    /\ wsPc' = "top"
    /\ mainPc' = "snapshot"
    /\ UNCHANGED <<app, running, websocket, active_subscriptions, shutdown, now, db, connected, dequeMutated, nEvents, cleanup_counter, df,
                   iterPos, stats, subsSent, readOnConn, filteredOnConn, deliveredOnConn,
                   lostAfterDelivery, needBackoff>>
    /\ UNCHANGED bufVars

\* get_latest_liquidations up to pd.DataFrame(liquidations): an empty deque
\* returns an empty frame; otherwise pandas starts to iterate the deque.
SnapshotBegin ==
    /\ mainPc = "snapshot"
    /\ mainPc' = IF liquidations = <<>> THEN "render" ELSE "iterate"
    /\ df' = <<>>
    /\ iterPos' = 0
    /\ dequeMutated' = FALSE
    /\ UNCHANGED <<app, running, websocket, active_subscriptions, shutdown, now, db, connected, nEvents, cleanup_counter, stats>>
    /\ UNCHANGED bufVars
    /\ UNCHANGED wsVars

\* What get_latest_liquidations returns of the items read: all of them
\* (streamlit_app.py) or df.head(limit) (paradex_dashboard.py).
SnapshotResult(items) ==
    IF app = "paradex" THEN FirstN(items, SNAPSHOT_LIMIT) ELSE items

\* One next() of the deque iterator inside pd.DataFrame(liquidations): it raises
\* RuntimeError when the deque changed since the iterator was made (nothing
\* catches it: the run ends), returns the next item, or stops.  The items read
\* are liquidations[1..iterPos]: the deque has not changed while they were read.
SnapshotIterate ==
    /\ mainPc = "iterate"
    /\ IF dequeMutated
       THEN mainPc' = "snapshot_error" /\ iterPos' = 0 /\ df' = df
       ELSE IF iterPos < Len(liquidations)
       THEN /\ iterPos' = iterPos + 1
            /\ mainPc' = "iterate"
            /\ df' = df
       ELSE /\ df' = SnapshotResult(SubSeq(liquidations, 1, iterPos))
            /\ iterPos' = 0
            /\ mainPc' = "render"
    /\ dequeMutated' = FALSE
    /\ UNCHANGED <<app, running, websocket, active_subscriptions, shutdown, now, db, connected, nEvents, cleanup_counter, stats>>
    /\ UNCHANGED bufVars
    /\ UNCHANGED wsVars

\* calculate_stats(df) on the snapshot.
CalculateStats(d, t) == IF app = "aster" THEN AsterStats(d, t) ELSE ParadexStats(d)

\* calculate_stats(df) and the display; then time.sleep and the next pass
\* (streamlit_app.py), or st.rerun(), which ends this run (paradex_dashboard.py).
Render ==
    /\ mainPc = "render"
    /\ mainPc' = IF app = "aster" THEN "loop" ELSE "done"
    /\ \E result \in CalculateStats(df, now) : stats' = <<result>>
    /\ df' = <<>>
    /\ UNCHANGED <<app, running, websocket, active_subscriptions, shutdown, now, db, connected, dequeMutated, nEvents, cleanup_counter,
                   iterPos>>
    /\ UNCHANGED bufVars
    /\ UNCHANGED wsVars

\* ---------------------------------------------------------------- monitor
\* paradex_monitor.py has one thread: main() calls monitor.connect(),
\* monitor.subscribe(), monitor.listen() and, in its finally, monitor.close().
\* mainPc is where main() is; the monitor keeps no deque and no table.  Each
\* of its steps waits in an await, where an interrupt is delivered instead
\* once the process was asked to stop.
monitorUnchanged ==
    <<app, shutdown, now, liquidations, db, wsPc, connected, cleanup_counter, df, iterPos, stats,
      dequeMutated, insertedAt, nIns, streamRun, readOnConn, filteredOnConn,
      deliveredOnConn, lostAfterDelivery, needBackoff>>

\* monitor.connect(): the connection opens and connect returns True, or the
\* attempt times out or raises, connect returns False and main() goes to its
\* finally.
MonitorConnectTry(ok) ==
    /\ app = "monitor" /\ mainPc = "connect" /\ ~shutdown
    /\ Event(IF ok THEN 0 ELSE 1)
    /\ mainPc' = IF ok THEN "subscribe" ELSE "close"
    /\ websocket' = IF ok THEN "open" ELSE websocket
    /\ UNCHANGED <<running, active_subscriptions, subsSent>>
    /\ UNCHANGED monitorUnchanged

MonitorConnect == \E ok \in BOOLEAN : MonitorConnectTry(ok)

\* monitor.subscribe([trades.ALL]): a send that raises is caught and logged,
\* and main() goes on to listen() either way, which sets self.running = True
\* before its loop.
MonitorSubscribeTry(ok) ==
    /\ app = "monitor" /\ mainPc = "subscribe" /\ ~shutdown
    /\ Event(IF ok THEN 0 ELSE 1)
    /\ subsSent' = IF ok THEN subsSent + 1 ELSE subsSent
    /\ active_subscriptions' = IF ok THEN active_subscriptions \cup {"trades.ALL"}
                                ELSE active_subscriptions
    /\ mainPc' = "listen"
    /\ running' = TRUE
    /\ UNCHANGED websocket
    /\ UNCHANGED monitorUnchanged

MonitorSubscribe == \E ok \in BOOLEAN : MonitorSubscribeTry(ok)

\* One message of `async for message in self.websocket`: json.loads and
\* format_message, with both except clauses inside the loop; the message is
\* printed or the error is, and the loop reads on.
MonitorListenFrame(frame) ==
    /\ app = "monitor" /\ mainPc = "listen" /\ ~shutdown
    /\ Event(1)
    /\ UNCHANGED <<mainPc, running, websocket, active_subscriptions, subsSent>>
    /\ UNCHANGED monitorUnchanged

MonitorListen == \E frame \in ParadexFrames : MonitorListenFrame(frame)

\* The connection ends under listen(): ConnectionClosed or another exception
\* sets self.running = False, a normal closure just ends the async for; listen
\* returns to main()'s finally.
MonitorClosed ==
    /\ app = "monitor" /\ mainPc = "listen"
    /\ Event(1)
    /\ \E normal \in BOOLEAN : running' = normal
    /\ mainPc' = "close"
    /\ websocket' = "closed"
    /\ UNCHANGED <<active_subscriptions, subsSent>>
    /\ UNCHANGED monitorUnchanged

\* monitor.close() in main()'s finally: self.running = False and the
\* connection, if there is one, is closed; active_subscriptions is left as it
\* is.  main() returns and asyncio.run ends.
MonitorClose ==
    /\ app = "monitor" /\ mainPc = "close"
    /\ running' = FALSE
    /\ websocket' = IF websocket = "none" THEN "none" ELSE "closed"
    /\ mainPc' = "exited"
    /\ UNCHANGED <<nEvents, active_subscriptions, subsSent>>
    /\ UNCHANGED monitorUnchanged

Next ==
    \/ Tick
    \/ WsConnect \/ WsSubscribe
    \/ AsterRecv \/ AsterClosed \/ AsterSleep
    \/ ParadexTop \/ ParadexRecv \/ ParadexClosed \/ ParadexSleep
    \/ AsterInitDb \/ AsterLoad \/ AsterLoop
    \/ ParadexInitDb \/ ParadexLoad \/ ParadexStartWs
    \/ SnapshotBegin \/ SnapshotIterate \/ Render
    \/ MonitorConnect \/ MonitorSubscribe \/ MonitorListen \/ MonitorClosed \/ MonitorClose

Spec == Init /\ [][Next]_vars

TypeOK ==
    /\ Len(liquidations) = Len(insertedAt)
    /\ nEvents \in 0..MaxEvents

\* ---------------------------------------------------------------- properties
Min(a, b) == IF a < b THEN a ELSE b

\* The insertion numbers of the deque's items from the end where
\* process_liquidation inserts, newest last: the right end for append
\* (streamlit_app.py), the left end for appendleft (paradex_dashboard.py).
NewestLast(m) ==
    IF app = "aster" THEN LastN(insertedAt, m) ELSE Reverse(FirstN(insertedAt, m))

\* C1: the deque never holds more than MAX_DATA_POINTS records, and after a run
\* of n process_liquidation insertions it holds the min(n, MAX_DATA_POINTS) most
\* recent of them at its inserting end; from n = MAX_DATA_POINTS on these are
\* all it holds, and every older record is gone.
C1_CapacityInvariant ==
    /\ Len(liquidations) <= MAX_DATA_POINTS
    /\ LET m == Min(streamRun, MAX_DATA_POINTS)
       IN  /\ m <= Len(liquidations)
           /\ NewestLast(m) = [i \in 1..m |-> nIns - m + i]
    /\ streamRun >= MAX_DATA_POINTS => Len(liquidations) = MAX_DATA_POINTS

\* More than MAX_DATA_POINTS records were streamed in a row: one was evicted.
C1_Witness ==
    /\ streamRun > MAX_DATA_POINTS
    /\ Len(liquidations) = MAX_DATA_POINTS

\* The frame gives process_liquidation (streamlit_app.py) a record whose key is
\* in the deque.
AsterKeyPresent(frame) ==
    /\ frame.json
    /\ AsterNormalize(frame, now).kind = "record"
    /\ Key(AsterNormalize(frame, now).rec) \in KeysOf(liquidations)

\* The frame gives process_liquidation (paradex_dashboard.py) a record whose key
\* is in the deque.
ParadexKeyPresent(frame) ==
    /\ ParadexEnvelope(frame) = "process"
    /\ ParadexNormalize(frame, now).kind = "record"
    /\ Key(ParadexNormalize(frame, now).rec) \in KeysOf(liquidations)

\* C2: in both dashboards process_liquidation on a record whose key the deque
\* already holds leaves the deque as it is.
C2_DedupIdempotence ==
    [][ /\ \A frame \in AsterFrames, storeOk \in BOOLEAN :
              (AsterRecvFrame(frame, storeOk) /\ AsterKeyPresent(frame))
                  => liquidations' = liquidations
        /\ \A frame \in ParadexFrames, storeOk \in BOOLEAN :
              (ParadexRecvFrame(frame, storeOk) /\ ParadexKeyPresent(frame))
                  => liquidations' = liquidations ]_vars

\* C3: no two records of the deque share a key, whatever the order of stream
\* insertions and loads from the table.
C3_BufferKeysUnique == Cardinality(KeysOf(liquidations)) = Len(liquidations)

\* No two rows of the table share an id or a (timestamp, symbol, side, value).
TableUnique ==
    \A i, j \in 1..Len(db) :
        i # j => /\ db[i].id # db[j].id
                 /\ UniqueTuple(db[i]) # UniqueTuple(db[j])

\* A step in which a receive loop may have handled a frame: the thread was
\* reading, an event was spent, and the clock and the main thread stood still.
\* Every AsterRecvFrame and ParadexRecvFrame step is one.
FrameStep ==
    wsPc = "recv" /\ nEvents' # nEvents /\ now' = now /\ mainPc' = mainPc

\* The frames of the feeds that process_liquidation makes a record of (at any
\* clock reading): no other frame gets as far as save_liquidation_to_db.
AsterRecordFrames ==
    {frame \in AsterFrames : frame.json /\ AsterNormalize(frame, 0).kind = "record"}

ParadexRecordFrames ==
    {frame \in ParadexFrames :
        ParadexEnvelope(frame) = "process" /\ ParadexNormalize(frame, 0).kind = "record"}

\* The row save_liquidation_to_db writes for the frame, when the frame gets that far.
AsterSaves(frame) ==
    /\ AsterHandle(frame, TRUE).outcome = "saved"
    /\ SqlConflict(db, AsterRow(AsterNormalize(frame, now).rec))

ParadexSaves(frame) ==
    /\ ParadexHandle(frame, TRUE).outcome = "saved"
    /\ SqlConflict(db, ParadexRow(ParadexNormalize(frame, now).rec))

\* C4: the table never holds two rows with the same id or the same
\* (timestamp, symbol, side, value), and save_liquidation_to_db of a record
\* whose id or tuple is stored leaves the table as it is and raises nothing:
\* the receive loop reads on.
C4_StoreIdempotentInsert ==
    /\ []TableUnique
    /\ [][ FrameStep =>
             /\ \A frame \in AsterRecordFrames :
                   (app = "aster" /\ AsterSaves(frame) /\ AsterRecvFrame(frame, TRUE))
                       => db' = db /\ wsPc' = "recv"
             /\ \A frame \in ParadexRecordFrames :
                   (app = "paradex" /\ ParadexSaves(frame) /\ ParadexRecvFrame(frame, TRUE))
                       => db' = db /\ wsPc' = "recv" ]_vars

\* Two streamed records with one id, no store failure (every event was a
\* frame that inserted), and the table holds that id once.
C4_Witness ==
    /\ nIns = 2 /\ streamRun = 2 /\ nEvents = 2
    /\ liquidations[1].id = liquidations[2].id
    /\ Cardinality({i \in 1..Len(db) : db[i].id = liquidations[1].id}) = 1

\* The websocket thread's own steps after a connection ends: they wait for
\* nothing but the scheduler.
FairSpec ==
    /\ Spec
    /\ WF_vars(AsterSleep) /\ WF_vars(ParadexSleep) /\ WF_vars(ParadexTop)
    /\ WF_vars(MonitorClose)

\* C5: in both clients the subscribe request is sent once on every connection
\* and before any frame of that connection is read, and a client that lost a
\* connection goes on to connect again.
C5_ResubscribeOnReconnect ==
    /\ [](subsSent <= 1)
    /\ []((wsPc = "recv" \/ readOnConn) => subsSent = 1)
    /\ (needBackoff ~> wsPc = "connect")

\* A connection that had delivered a record was lost, and a frame has been
\* read on a later connection.
C5_Witness ==
    /\ lostAfterDelivery
    /\ wsPc = "recv"
    /\ readOnConn

\* C6: in both clients no connection attempt follows a lost or failed
\* connection without the 5 second sleep in between.
C6_BackoffOnEveryDisconnect ==
    [][ \A ok \in BOOLEAN : Connect(ok) => ~needBackoff ]_vars

\* The frame is a liquidation message without a price.
AsterPriceMissing(frame) ==
    frame.json /\ frame.e = "forceOrder" /\ frame.ap = MISSING

ParadexPriceMissing(frame) ==
    /\ ParadexEnvelope(frame) = "process"
    /\ frame.trade_type = "liquidation"
    /\ frame.price = MISSING

\* C7: a liquidation message without a price gives no record (the deque and
\* the table stay as they are) and the receive loop reads on.
C7_MissingPriceTolerated ==
    [][ /\ \A frame \in AsterFrames, storeOk \in BOOLEAN :
              (AsterRecvFrame(frame, storeOk) /\ AsterPriceMissing(frame))
                  => liquidations' = liquidations /\ db' = db /\ wsPc' = "recv"
        /\ \A frame \in ParadexFrames, storeOk \in BOOLEAN :
              (ParadexRecvFrame(frame, storeOk) /\ ParadexPriceMissing(frame))
                  => liquidations' = liquidations /\ db' = db /\ wsPc' = "recv" ]_vars

\* The frame is not JSON, or its price or size is not a number.
AsterMalformed(frame) ==
    ~frame.json \/ (frame.e = "forceOrder" /\ AsterNormalize(frame, now).kind = "error")

ParadexMalformed(frame) ==
    \/ ~frame.json
    \/ ~IsNumeric(Get(frame, "price", "0"))
    \/ ~IsNumeric(Get(frame, "size", "0"))

\* The client is where it was: same connection, reading, nothing sent, no sleep due.
StaysStreaming ==
    /\ wsPc' = "recv"
    /\ UNCHANGED <<liquidations, db, connected, subsSent, needBackoff>>

\* C8: a frame that is not JSON, or whose price or size is not a number, is
\* skipped: the client stays on its connection, does not sleep or subscribe
\* again, and reads the next frame.
C8_DecodeErrorsRecoveredLocally ==
    [][ /\ \A frame \in AsterFrames, storeOk \in BOOLEAN :
              (AsterRecvFrame(frame, storeOk) /\ AsterMalformed(frame)) => StaysStreaming
        /\ \A frame \in ParadexFrames, storeOk \in BOOLEAN :
              (ParadexRecvFrame(frame, storeOk) /\ ParadexMalformed(frame)) => StaysStreaming
      ]_vars

\* C9: when save_liquidation_to_db fails for a new record, the record is in the
\* deque afterwards, and nothing escapes process_liquidation: the receive loop
\* reads on, on the same connection.
C9_StoreFailureKeepsRecord ==
    [][ FrameStep =>
          /\ \A frame \in AsterRecordFrames :
                (app = "aster" /\ AsterHandle(frame, FALSE).outcome = "store_error"
                    /\ AsterRecvFrame(frame, FALSE))
                    => /\ AsterNormalize(frame, now).rec \in SeqToSet(liquidations')
                       /\ wsPc' = "recv" /\ UNCHANGED <<db, connected, needBackoff>>
          /\ \A frame \in ParadexRecordFrames :
                (app = "paradex" /\ ParadexHandle(frame, FALSE).outcome = "store_error"
                    /\ ParadexRecvFrame(frame, FALSE))
                    => /\ ParadexNormalize(frame, now).rec \in SeqToSet(liquidations')
                       /\ wsPc' = "recv" /\ UNCHANGED <<db, connected, needBackoff>> ]_vars

\* One record was streamed and its save failed (within two events nothing else
\* leaves the table empty beside it), and the client is reading on.
C9_Witness ==
    /\ wsPc = "recv"
    /\ nIns = 1 /\ streamRun = 1 /\ nEvents = 2
    /\ db = <<>>

\* C10: get_latest_liquidations never fails because the deque changed while it
\* was read, and no insertion happens while a snapshot is being taken.
C10_ConsistentSnapshot ==
    /\ mainPc # "snapshot_error"
    /\ mainPc = "iterate" => ~dequeMutated

\* The stream client's process_liquidation changed the deque or the table in this step.
StreamInsert ==
    /\ AsterRecv \/ ParadexRecv
    /\ liquidations' # liquidations \/ db' # db

\* C11: the stream client appends no record and writes no row before main()
\* has finished init_db() and load_liquidations_from_db().
C11_BackfillPrecedesStreaming ==
    [][ StreamInsert => mainPc \notin {"init_db", "load"} ]_vars

\* The event time of a record as a number: the clock reading of
\* streamlit_app.py, the feed's timestamp text of paradex_dashboard.py.
EventTime(liq) == IF app = "aster" THEN liq.timestamp ELSE NumVal[liq.timestamp]

\* load_liquidations_from_db returned in this step, and what it appended: the
\* rightmost items of the deque, as many as it inserted.
LoadStep == mainPc = "load" /\ mainPc' \in {"loop", "start_ws"}

LoadedItems == LastN(liquidations', nIns' - nIns)

\* C12: in both dashboards load_liquidations_from_db appends at most
\* MAX_DATA_POINTS records, none older than now - 1 hour, oldest first.
C12_LoadRecentWindowOrder ==
    [][ LoadStep =>
          /\ Len(LoadedItems) <= MAX_DATA_POINTS
          /\ \A i \in 1..Len(LoadedItems) : EventTime(LoadedItems[i]) >= now - HOUR
          /\ \A i, j \in 1..Len(LoadedItems) :
                i < j => EventTime(LoadedItems[i]) <= EventTime(LoadedItems[j]) ]_vars

\* The rows of an aster table whose timestamp is t or later.
RowsSince(table, t) == {table[i] : i \in {j \in 1..Len(table) : table[j].timestamp.iso >= t}}

\* cleanup_old_liquidations ran and returned in this step.
SweepStep ==
    /\ app = "aster" /\ mainPc = "loop" /\ mainPc' = "snapshot"
    /\ cleanup_counter % CLEANUP_EVERY = 0

\* C13: cleanup_old_liquidations deletes from the table every row older than
\* now - 1 hour and no other row, and leaves the deque as it is; what a load
\* covering two hours finds afterwards are the rows of the last hour.
C13_RetentionSweep ==
    [][ SweepStep =>
          /\ SeqToSet(db') = RowsSince(db, now - HOUR)
          /\ Len(db') = Cardinality(RowsSince(db, now - HOUR))
          /\ RowsSince(db', now - 2 * HOUR) = RowsSince(db, now - HOUR)
          /\ liquidations' = liquidations ]_vars

\* A sweep at clock 0 of a table that held rows two hours old, one hour old
\* and current: the first is gone, the others are kept.
C13_Witness ==
    /\ app = "aster" /\ mainPc = "snapshot" /\ now = 0
    /\ \E i \in 1..Len(db) : db[i].timestamp.iso = 0
    /\ \E i \in 1..Len(db) : db[i].timestamp.iso = 0 - 1
    /\ \A i \in 1..Len(db) : db[i].timestamp.iso # 0 - 2

\* The main thread's steps wait for nothing but the scheduler either.
FairMain ==
    /\ FairSpec
    /\ WF_vars(AsterInitDb) /\ WF_vars(AsterLoad) /\ WF_vars(AsterLoop)
    /\ WF_vars(ParadexInitDb) /\ WF_vars(ParadexLoad) /\ WF_vars(ParadexStartWs)
    /\ WF_vars(SnapshotBegin) /\ WF_vars(SnapshotIterate) /\ WF_vars(Render)

\* The event time of a row of the table as a number.
RowTime(row) == IF app = "aster" THEN row.timestamp.iso ELSE NumVal[row.timestamp]

\* The table holds a row older than the retention window.
Expired == \E i \in 1..Len(db) : RowTime(db[i]) < now - HOUR

\* main() was ended by an exception nothing caught.
MainEnded == mainPc \in {"crashed", "snapshot_error"}

\* C14: in each dashboard, while main() is not ended by an exception, a row
\* that has fallen out of the retention window is eventually deleted.
C14_RetentionEventuallyEnforced == Expired ~> (~Expired \/ MainEnded)

\* The deques a restarted process may build: load_liquidations_from_db on the
\* table as it is now, into an empty deque.
Reloads ==
    IF app = "aster"
    THEN {DequeExtend(<<>>, AsterLoaded(rows)) : rows \in AsterSelect(db, now)}
    ELSE {DequeExtend(<<>>, ParadexLoaded(rows)) : rows \in ParadexSelect(db)}

\* The row save_liquidation_to_db writes for a record of the deque.
SavedRow(liq) == IF app = "aster" THEN AsterRow(liq) ELSE ParadexRow(liq)

\* The deque holds what this run streamed, nothing was evicted, every record
\* was saved, the table holds nothing else, and no record is older than the
\* load window.
AllStreamedAndSaved ==
    /\ nIns = streamRun /\ nIns = Len(liquidations) /\ Len(db) = Len(liquidations)
    /\ \A i \in 1..Len(liquidations) :
          /\ SavedRow(liquidations[i]) \in SeqToSet(db)
          /\ EventTime(liquidations[i]) >= now - HOUR

\* C15: when every record of the deque was streamed and saved, a restart
\* loads from the table a deque equal to the one in memory: the same records,
\* equal in every field, in the same order.
C15_RestartRoundTrip ==
    (liquidations # <<>> /\ AllStreamedAndSaved)
        => \A buf \in Reloads : buf = liquidations

\* ---------------------------------------------------------------- calculate_stats alone
\* Longest snapshot given to calculate_stats.
MaxRows == 3

\* Rows of a snapshot: the columns calculate_stats reads.
StatsRows ==
    [symbol : {"BTC-USD", "ETH-USD"}, side : {"BUY", "SELL"}, value : {50, 100, 200},
     timestamp : {0}]

\* Either dashboard is about to call calculate_stats(df) on some snapshot.
StatsInit ==
    /\ app \in {"aster", "paradex"}
    /\ running = FALSE
    /\ websocket = "none"
    /\ active_subscriptions = {}
    /\ shutdown = FALSE
    /\ now \in {0, 2}
    /\ df \in UNION {[1..n -> StatsRows] : n \in 0..MaxRows}
    /\ mainPc = "render"
    /\ liquidations = <<>> /\ db = <<>> /\ wsPc = "idle" /\ connected = FALSE
    /\ cleanup_counter = 0 /\ iterPos = 0 /\ stats = <<>> /\ dequeMutated = FALSE
    /\ nEvents = 0 /\ insertedAt = <<>> /\ nIns = 0 /\ streamRun = 0 /\ subsSent = 0
    /\ readOnConn = FALSE /\ filteredOnConn = FALSE /\ deliveredOnConn = FALSE
    /\ lostAfterDelivery = FALSE
    /\ needBackoff = FALSE

StatsSpec == StatsInit /\ [][Render]_vars

\* The count the result gives for each side it counts: longs and shorts
\* (paradex_dashboard.py); streamlit_app.py returns no count per side.
ReportedSideCounts(st) ==
    IF app = "paradex"
    THEN [s \in {"LONG", "SHORT"} |-> IF s = "LONG" THEN st.longs ELSE st.shorts]
    ELSE [s \in {} |-> 0]

\* The symbols the result ranks, best first: top_pairs (paradex_dashboard.py),
\* the one top_symbol (streamlit_app.py).
ReportedRanking(st) ==
    IF app = "paradex"
    THEN [i \in 1..Len(st.top_pairs) |-> st.top_pairs[i][1]]
    ELSE IF st.top_symbol = "N/A" THEN <<>> ELSE <<st.top_symbol>>

\* The average the result gives.
ReportedAverage(st) == IF app = "paradex" THEN st.avg_size ELSE st.avg_trade_size

\* The total value of the rows of one symbol.
Volume(d, sym) == SumValues(SelectSeq(d, LAMBDA liq : liq.symbol = sym))

\* The result st is right for the snapshot d.
StatsAgree(d, st) ==
    /\ st.total_liquidations = Len(d)
    /\ st.total_volume = SumValues(d)
    /\ ReportedAverage(st).num * Len(d) = SumValues(d) * ReportedAverage(st).den
    /\ \A s \in {d[i].side : i \in 1..Len(d)} :
          /\ s \in DOMAIN ReportedSideCounts(st)
          /\ ReportedSideCounts(st)[s] = Cardinality({i \in 1..Len(d) : d[i].side = s})
    /\ LET r == ReportedRanking(st)
       IN  /\ {r[i] : i \in 1..Len(r)} = {d[i].symbol : i \in 1..Len(d)}
           /\ \A i, j \in 1..Len(r) : i < j => Volume(d, r[i]) >= Volume(d, r[j])

\* (BTC-USD, BUY, 100), (BTC-USD, SELL, 50), (ETH-USD, BUY, 200)
StatsScenario ==
    << [symbol |-> "BTC-USD", side |-> "BUY", value |-> 100, timestamp |-> 0],
       [symbol |-> "BTC-USD", side |-> "SELL", value |-> 50, timestamp |-> 0],
       [symbol |-> "ETH-USD", side |-> "BUY", value |-> 200, timestamp |-> 0] >>

\* C16: calculate_stats returns the number of records, the sum of their
\* values, their average, the number of records of each side, and the symbols
\* ranked by total value, largest first; for the three records of the scenario:
\* 3, 350, BUY 2 and SELL 1, ETH-USD before BTC-USD.
C16_StatsCorrect ==
    [][ Render =>
          /\ StatsAgree(df, stats'[1])
          /\ df = StatsScenario =>
                /\ stats'[1].total_liquidations = 3
                /\ stats'[1].total_volume = 350
                /\ ReportedSideCounts(stats'[1]) = [s \in {"BUY", "SELL"} |->
                                                        IF s = "BUY" THEN 2 ELSE 1]
                /\ ReportedRanking(stats'[1]) = <<"ETH-USD", "BTC-USD">> ]_vars

\* C17: in both dashboards calculate_stats on an empty snapshot returns count
\* 0, volume 0 and an average of 0 (no division by zero), and main() goes on.
C17_EmptyStats ==
    [][ (Render /\ df = <<>>) =>
          /\ stats'[1].total_liquidations = 0
          /\ stats'[1].total_volume = 0
          /\ ReportedAverage(stats'[1]).num = 0
          /\ ReportedAverage(stats'[1]).den # 0
          /\ mainPc' \in {"loop", "done"} ]_vars

\* calculate_stats has returned for a snapshot without rows.
C17_Witness ==
    /\ mainPc \in {"loop", "done"}
    /\ stats # <<>>
    /\ stats[1].total_liquidations = 0

\* The records of the deque at the positions idx, least recently inserted first.
RECURSIVE ByInsertion(_)
ByInsertion(idx) ==
    IF idx = {} THEN <<>>
    ELSE LET i == CHOOSE i \in idx : \A j \in idx : insertedAt[i] <= insertedAt[j]
         IN  <<liquidations[i]>> \o ByInsertion(idx \ {i})

\* The limit of a snapshot: the argument of get_latest_liquidations(limit)
\* (paradex_dashboard.py); streamlit_app.py takes whatever the deque holds.
SnapshotLimit == IF app = "paradex" THEN SNAPSHOT_LIMIT ELSE MAX_DATA_POINTS

\* get_latest_liquidations returned a frame of the deque's records in this step.
SnapshotDone == mainPc = "iterate" /\ mainPc' = "render"

\* C18: get_latest_liquidations returns at most `limit` records, namely the
\* `limit` most recently inserted records of the deque in their order (newest
\* first or newest last), and leaves the deque as it is.
C18_SnapshotContract ==
    [][ SnapshotDone =>
          LET recent == LastN(ByInsertion(1..Len(liquidations)), SnapshotLimit)
          IN  /\ Len(df') <= SnapshotLimit
              /\ df' = recent \/ df' = Reverse(recent)
              /\ liquidations' = liquidations ]_vars

\* A decoded message that is not a forced order (streamlit_app.py).
AsterNotLiquidation(frame) == frame.json /\ frame.e # "forceOrder"

\* A trade of the channel that reaches process_liquidation and is not a
\* liquidation (paradex_dashboard.py).
ParadexNotLiquidation(frame) ==
    /\ ParadexEnvelope(frame) = "process"
    /\ Get(frame, "trade_type", "") # "liquidation"

\* The frames of the feeds that are such messages.
AsterNonLiquidations == {frame \in AsterFrames : AsterNotLiquidation(frame)}

ParadexNonLiquidations == {frame \in ParadexFrames : ParadexNotLiquidation(frame)}

\* C19: process_liquidation on a message that is not a liquidation or forced
\* order returns normally: the deque and the table are as before and the
\* client reads the next frame.
C19_NonLiquidationFiltered ==
    [][ FrameStep => \A storeOk \in BOOLEAN :
          /\ \A frame \in AsterNonLiquidations :
                 AsterRecvFrame(frame, storeOk)
                     => liquidations' = liquidations /\ db' = db /\ wsPc' = "recv"
          /\ \A frame \in ParadexNonLiquidations :
                 ParadexRecvFrame(frame, storeOk)
                     => liquidations' = liquidations /\ db' = db /\ wsPc' = "recv" ]_vars

\* A message was filtered out on a connection that is still being read, with
\* a record in the deque and a row in the table to be left alone.
C19_Witness ==
    /\ filteredOnConn /\ wsPc = "recv"
    /\ liquidations # <<>> /\ db # <<>>

\* The client's loop has ended: main() of the monitor returned.  The websocket
\* threads of the dashboards have no such position.
ClientExited == app = "monitor" /\ mainPc = "exited"

\* A connection attempt failed or a connection was lost, and the client has
\* not come back to connect since.  In the monitor main() is at its finally
\* or past it for no other reason.
LostOrFailed ==
    \/ needBackoff
    \/ wsPc \in {"sleep", "top"}
    \/ app = "monitor" /\ mainPc \in {"close", "exited"}

\* The client is about to call websockets.connect.
AtConnect == IF app = "monitor" THEN mainPc = "connect" ELSE wsPc = "connect"

\* C20: the client loop never ends, and after every failed connection attempt
\* and every lost connection the client comes to connect again; in
\* aster_websocket, paradex_websocket and the monitor's main.
C20_ClientNeverGivesUp ==
    /\ [](~ClientExited)
    /\ (LostOrFailed ~> AtConnect)

\* The process is asked to stop: Ctrl+C on the monitor, a stop of the
\* Streamlit server or script for the dashboards.  No program of the
\* repository has a variable, event or parameter for it; the request is
\* recorded here.
RequestShutdown ==
    /\ ~shutdown
    /\ shutdown' = TRUE
    /\ UNCHANGED <<app, running, websocket, active_subscriptions, now, connected, db,
                   dequeMutated, nEvents>>
    /\ UNCHANGED bufVars
    /\ UNCHANGED wsVars
    /\ UNCHANGED mainVars

\* The interrupt in paradex_monitor.main(): KeyboardInterrupt, or the
\* cancellation asyncio.run turns it into, is not an Exception, so neither
\* connect() nor listen() catches it and main() goes to its finally.
\* aster_websocket and paradex_websocket run in daemon threads that nothing
\* interrupts: they have no step like it.
MonitorInterrupt ==
    /\ app = "monitor" /\ shutdown
    /\ mainPc \in {"connect", "subscribe", "listen"}
    /\ mainPc' = "close"
    /\ UNCHANGED <<running, websocket, active_subscriptions, nEvents, subsSent>>
    /\ UNCHANGED monitorUnchanged

ShutdownNext == Next \/ RequestShutdown \/ MonitorInterrupt

\* The runs in which a stop may be requested, with the threads' own steps
\* scheduled.
ShutdownSpec ==
    /\ Init /\ [][ShutdownNext]_vars
    /\ WF_vars(AsterSleep) /\ WF_vars(ParadexSleep) /\ WF_vars(ParadexTop)
    /\ WF_vars(MonitorInterrupt) /\ WF_vars(MonitorClose)

\* The client has stopped: main() of the monitor returned.  The websocket
\* threads of the dashboards have no position after their while True.
Stopped == app = "monitor" /\ mainPc = "exited"

\* The client has a websocket thread or a main() that connects.
HasClient == app = "monitor" \/ wsPc # "idle"

\* C21: once a stop is requested, the stream client comes to a stopped state
\* (out of the connection it holds and out of the backoff sleep) and calls
\* websockets.connect no more.
C21_CooperativeShutdown ==
    /\ (shutdown /\ HasClient) ~> Stopped
    /\ [][ shutdown => ~(WsConnect \/ MonitorConnect) ]_vars

\* The clock readings at which the frame was delivered and saved: the deque
\* holds the record made from it then, and the table its row.
AsterDeliveredAt(frame) ==
    {t \in 0..now :
        LET rec == AsterNormalize(frame, t).rec
        IN  rec \in SeqToSet(liquidations) /\ AsterRow(rec) \in SeqToSet(db)}

ParadexDeliveredAt(frame) ==
    {t \in 0..now :
        LET rec == ParadexNormalize(frame, t).rec
        IN  rec \in SeqToSet(liquidations) /\ ParadexRow(rec) \in SeqToSet(db)}

\* C22: a liquidation message that is delivered again gets the same id and the
\* same dedup key as the record made from it before, and adds nothing to the
\* deque or the table.
C22_NaturalKeyDeterminism ==
    [][ FrameStep =>
          /\ \A frame \in AsterRecordFrames :
                (app = "aster" /\ AsterDeliveredAt(frame) # {}
                    /\ AsterRecvFrame(frame, TRUE))
                    => /\ \A t \in AsterDeliveredAt(frame) :
                              /\ AsterNormalize(frame, now).rec.id
                                     = AsterNormalize(frame, t).rec.id
                              /\ Key(AsterNormalize(frame, now).rec)
                                     = Key(AsterNormalize(frame, t).rec)
                       /\ liquidations' = liquidations /\ db' = db
          /\ \A frame \in ParadexRecordFrames :
                (app = "paradex" /\ ParadexDeliveredAt(frame) # {}
                    /\ ParadexRecvFrame(frame, TRUE))
                    => /\ \A t \in ParadexDeliveredAt(frame) :
                              /\ ParadexNormalize(frame, now).rec.id
                                     = ParadexNormalize(frame, t).rec.id
                              /\ Key(ParadexNormalize(frame, now).rec)
                                     = Key(ParadexNormalize(frame, t).rec)
                       /\ liquidations' = liquidations /\ db' = db ]_vars

\* paradex_websocket holds an open connection: websockets.connect returned and
\* the async with block has not been left.
ConnectionEstablished == wsPc \in {"subscribe", "recv"}

\* C23: in paradex_dashboard get_connection_status() is True only while a
\* connection is established: it is False during a connection attempt, after
\* a failed attempt and during the backoff sleep.
C23_ConnectivityFlagAccurate ==
    (app = "paradex" /\ connected) => ConnectionEstablished

\* The deque holds a record that load_liquidations_from_db put there: fewer
\* process_liquidation insertions followed the load than the deque has items.
HoldsLoaded == streamRun < Len(liquidations)

\* The insertion numbers of the records a step removes from the deque, and of
\* those it keeps.
Evicted == SeqToSet(insertedAt) \ SeqToSet(insertedAt')

Kept == SeqToSet(insertedAt) \cap SeqToSet(insertedAt')

\* C24: an insert into a full deque that holds loaded records evicts the
\* record that entered longest ago: no evicted record was inserted after one
\* that stays.
C24_EvictionVictimFifo ==
    [][ (nIns' > nIns /\ Len(liquidations) = MAX_DATA_POINTS /\ HoldsLoaded)
            => \A e \in Evicted : \A k \in Kept : e < k ]_vars

\* cleanup_old_liquidations() raised in this pass of main()'s loop: the store
\* fault is the event the step spends.
SweepFails == AsterLoop /\ nEvents' # nEvents

\* C25: a failing cleanup_old_liquidations() stops neither main()'s loop, which
\* goes on with the pass and so comes to the next sweep, nor the websocket
\* thread.
C25_SweepFailureNonFatal ==
    [][ SweepFails => mainPc' = "snapshot" /\ wsPc' = wsPc ]_vars

\* The place of a symbol in lexical order.
SymbolRank == [s \in {"BTC-USD", "ETH-USD"} |-> IF s = "BTC-USD" THEN 1 ELSE 2]

\* The symbols of d by descending number of rows, equal numbers in lexical
\* order: the one ranking that does not depend on the order of the rows.
LexRanking(d) ==
    LET counts == ValueCounts(d, "symbol")
        ord    == [s \in DOMAIN counts |-> counts[s] * 3 - SymbolRank[s]]
    IN  CHOOSE order \in DescOrders(DOMAIN counts, ord) : TRUE

\* As many symbols as the result ranks: top_pairs has TOP_PAIRS, top_symbol one.
RankedSymbols == IF app = "paradex" THEN TOP_PAIRS ELSE 1

\* C26: calculate_stats ranks the symbols by descending aggregate (the number
\* of rows, which is what both dashboards rank by) and symbols with an equal
\* aggregate in lexical order, whatever the order of the records.
C26_DeterministicRanking ==
    [][ Render => ReportedRanking(stats'[1]) = FirstN(LexRanking(df), RankedSymbols) ]_vars

\* C27: in paradex_dashboard, for a snapshot of records that process_liquidation
\* made, calculate_stats counts every record as a long or as a short:
\* longs + shorts = total_liquidations.
C27_SideCountsPartition ==
    [][ (Render /\ app = "paradex")
            => stats'[1].longs + stats'[1].shorts = stats'[1].total_liquidations ]_vars

\* The monitor holds an open connection.
MonitorOpen == websocket = "open"

\* C28: active_subscriptions of the monitor lists a channel only if a
\* subscribe request for it was sent on an open connection (a subscribe whose
\* send fails adds nothing), and lists no channel while the monitor has no
\* open connection.
C28_SubscriptionBookkeeping ==
    (app = "monitor" /\ active_subscriptions # {})
        => subsSent >= 1 /\ MonitorOpen

\* C29: self.running of the monitor is True only while listen() is in its
\* loop; once listen() has returned, however the stream ended, it is False.
C29_RunningFlag ==
    (app = "monitor" /\ running) => mainPc = "listen"

====
